---- MODULE Spec2Model ----
(***************************************************************************)
(* A model of taco's tensor facade (include/taco/tensor.h): the            *)
(* coordinate buffer filled by TensorBase::insert, TensorBase::pack, the   *)
(* reference semantics of tensor handles and the resumable traversal of    *)
(* Tensor<CType>::const_iterator over a packed storage.                    *)
(*                                                                         *)
(* Arrays and vectors keep the zero-based indices of the source: vectors   *)
(* indexed by a level or a mode are functions over 0..order-1, index and   *)
(* value arrays are sequences read through Get(arr, i).                    *)
(***************************************************************************)
EXTENDS Integers, Sequences, FiniteSets, TLC

\* ------------------------------------------------------------------ bounds
\* largest declared dimension of a mode
MaxDim == 2
\* largest number of records a handle has pending (inserted, not packed)
MaxInserts == 2
\* largest number of cells of a fully Dense matrix that is filled cell by
\* cell
MaxCells == 4

\* ------------------------------------------------- program constants
\* sizeof(int): one coordinate of a record in the coordinate buffer
SizeofInt == 4
\* DataType::getNumBytes() of the component type (a 64-bit component)
NumBytes == 8

\* ------------------------------------------------------------- helpers
Dense == "Dense"
Sparse == "Sparse"

Levels(order) == 0 .. (order - 1)

\* arr[i] of a zero-based array kept as a sequence
Get(arr, i) == arr[i + 1]

\* vec with vec[i] = v, for a zero-based vector kept as a function
Set(vec, i, v) == [vec EXCEPT ![i] = v]

\* a vector of n zeros (std::vector<T>(n), TypedIndexVector(type, n))
Zeros(n) == [i \in Levels(n) |-> 0]

RECURSIVE SortedSeq(_)
\* the elements of a finite set of integers, ascending
SortedSeq(S) ==
  IF S = {} THEN <<>>
  ELSE LET m == CHOOSE x \in S : \A y \in S : x <= y
       IN <<m>> \o SortedSeq(S \ {m})

RECURSIVE Flatten(_)
\* the concatenation of a sequence of sequences
Flatten(ss) ==
  IF ss = <<>> THEN <<>> ELSE Head(ss) \o Flatten(Tail(ss))

\* the permutations of 0..order-1
Permutations0(order) ==
  {p \in [Levels(order) -> Levels(order)] :
     \A i, j \in Levels(order) : i # j => p[i] # p[j]}

\* ------------------------------------------------ tensor declarations
\* A tensor as declared by the constructors: order, Format (mode type per
\* level, mode ordering), dimensions per mode and component type.
getOrder(t) == t.order

\* the size in bytes of one record: order coordinates and one component
coordinateSize(t) == getOrder(t) * SizeofInt + NumBytes

\* an all-zero record: what vector<char>::resize puts in new space
ZeroRecord(t) == [coord |-> Zeros(getOrder(t)), val |-> 0]

\* every coordinate of the record lies inside the declared dimensions
InBounds(t, coord) ==
  \A m \in Levels(getOrder(t)) : coord[m] >= 0 /\ coord[m] < t.dims[m]

\* ------------------------------------------------------------ storage
\* Index::getModeIndex(lvl) and ModeIndex::getIndexArray(i)
getModeIndex(index, lvl) == index[lvl + 1]

getIndexArray(modeIndex, i) == modeIndex[i + 1]

RECURSIVE sizeUpTo(_, _, _)
\* the number of positions of the first lvl levels of an index
sizeUpTo(t, index, lvl) ==
  IF lvl = 0 THEN 1
  ELSE LET parent == sizeUpTo(t, index, lvl - 1)
           modeIndex == getModeIndex(index, lvl - 1)
       IN IF t.modeTypes[lvl - 1] = Dense
            THEN parent * Get(getIndexArray(modeIndex, 0), 0)
            ELSE Get(getIndexArray(modeIndex, 0), parent)

\* Index::getSize(): the number of stored leaf entries (value slots)
getSize(t, index) == sizeUpTo(t, index, getOrder(t))

\* ------------------------------------------------------------ packing
\* the coordinate of a record in storage order: level i holds the mode
\* modeOrdering[i]
Permute(t, coord) == [i \in Levels(getOrder(t)) |-> coord[t.modeOrdering[i]]]

\* a path of l levels extended by the coordinate c at level l
Extend(path, l, c) == [i \in 0 .. l |-> IF i = l THEN c ELSE path[i]]

\* the level-l coordinates stored below a path, among the permuted
\* coordinates P
Children(P, path, l) ==
  {p[l] : p \in {q \in P : \A i \in 0 .. (l - 1) : q[i] = path[i]}}

RECURSIVE SumLen(_, _)
\* the total length of the first k sequences of ss
SumLen(ss, k) == IF k = 0 THEN 0 ELSE SumLen(ss, k - 1) + Len(ss[k])

RECURSIVE packLevels(_, _, _, _, _)
\* the mode indices of levels l.. and the paths of the leaves, in position
\* order, given the paths of the positions of level l - 1
packLevels(t, P, l, parents, acc) ==
  IF l = getOrder(t) THEN [index |-> acc, leaves |-> parents]
  ELSE IF t.modeTypes[l] = Dense THEN
    LET extent == t.dims[t.modeOrdering[l]]
        kids == Flatten([k \in 1 .. Len(parents) |->
                  [c \in 1 .. extent |-> Extend(parents[k], l, c - 1)]])
    IN packLevels(t, P, l + 1, kids, Append(acc, << <<extent>> >>))
  ELSE
    LET kidsOf == [k \in 1 .. Len(parents) |->
                    SortedSeq(Children(P, parents[k], l))]
        pos == [k \in 1 .. (Len(parents) + 1) |-> SumLen(kidsOf, k - 1)]
        idx == Flatten(kidsOf)
        kids == Flatten([k \in 1 .. Len(parents) |->
                  [c \in 1 .. Len(kidsOf[k]) |->
                     Extend(parents[k], l, kidsOf[k][c])]])
    IN packLevels(t, P, l + 1, kids, Append(acc, <<pos, idx>>))

\* the component stored for a leaf path: the value of the last record
\* inserted at that coordinate, 0 for a slot no record fills
LeafValue(t, recs, path) ==
  LET hits == {j \in 1 .. Len(recs) : Permute(t, recs[j].coord) = path}
  IN IF hits = {} THEN 0
     ELSE recs[CHOOSE j \in hits : \A k \in hits : k <= j].val

\* the Storage (Index and value array) packed from a sequence of in-bounds
\* records
packStorage(t, recs) ==
  LET P == {Permute(t, recs[j].coord) : j \in 1 .. Len(recs)}
      r == packLevels(t, P, 0, << <<>> >>, <<>>)
  IN [index |-> r.index,
      values |-> [k \in 1 .. Len(r.leaves) |-> LeafValue(t, recs, r.leaves[k])]]

\* ---------------------------------------------------------- traversal
\* an access to element i of an array of len elements, made by the
\* iterator it: an access out of range is recorded in it.oob (the index
\* lvl - 1 is recorded as -1 when lvl = 0, where the size_t wraps around)
Touch(it, array, i, len) ==
  IF 0 <= i /\ i < len THEN it
  ELSE [it EXCEPT !.oob = @ \cup {[array |-> array, index |-> i]}]

\* what a read of ptrs[lvl - 1] can give when lvl = 0 (no such element)
StrayReads == {0, 1}

RECURSIVE writeCoordinateByLevel(_, _, _, _, _)
\* a variant that ignores the mode ordering: curVal.first[i] = coord[i]
writeCoordinateByLevel(t, it, first, i, lvl) ==
  IF i >= lvl THEN first
  ELSE writeCoordinateByLevel(t, it, Set(first, i, it.coord[i]), i + 1, lvl)

RECURSIVE writeCoordinate(_, _, _, _, _)
\* for (i = 0; i < lvl; ++i) curVal.first[modeOrdering[i]] = coord[i]
writeCoordinate(t, it, first, i, lvl) ==
  IF i >= lvl THEN first
  ELSE writeCoordinate(t, it, Set(first, t.modeOrdering[i], it.coord[i]),
                       i + 1, lvl)

\* a variant of the leaf case that reports the resume without clearing the
\* advance flag
advanceLeafKeepsFlag(e, it, lvl) ==
  IF it.advance
    THEN [it |-> it, ret |-> FALSE]
    ELSE LET idx == IF lvl = 0 THEN 0 ELSE it.ptrs[lvl - 1]
             second == Get(e.storage.values, idx)
             first == writeCoordinate(e.t, it, it.curVal.first, 0, lvl)
             read == IF lvl = 0 THEN it ELSE Touch(it, "ptrs", lvl - 1, lvl)
         IN [it |-> [read EXCEPT
                       !.curVal = [first |-> first, second |-> second],
                       !.advance = TRUE],
             ret |-> TRUE]

\* a variant of the leaf case that reads the first value slot at every leaf
advanceLeafFirstSlot(e, it, lvl) ==
  IF it.advance
    THEN [it |-> [it EXCEPT !.advance = FALSE], ret |-> FALSE]
    ELSE LET second == Get(e.storage.values, 0)
             first == writeCoordinate(e.t, it, it.curVal.first, 0, lvl)
         IN [it |-> [it EXCEPT !.curVal = [first |-> first, second |-> second],
                               !.advance = TRUE],
             ret |-> TRUE]

\* lvl == order: the leaf case of advanceIndex(lvl)
advanceLeaf(e, it, lvl) ==
  IF it.advance
    THEN [it |-> [it EXCEPT !.advance = FALSE], ret |-> FALSE]
    ELSE LET idx == IF lvl = 0 THEN 0 ELSE it.ptrs[lvl - 1]
             second == Get(e.storage.values, idx)
             first == writeCoordinate(e.t, it, it.curVal.first, 0, lvl)
             read == IF lvl = 0 THEN it ELSE Touch(it, "ptrs", lvl - 1, lvl)
         IN [it |-> [read EXCEPT
                       !.curVal = [first |-> first, second |-> second],
                       !.advance = TRUE],
             ret |-> TRUE]

RECURSIVE advanceIndexAt(_, _, _)
RECURSIVE denseTest(_, _, _, _, _)
RECURSIVE denseResume(_, _, _, _, _)
RECURSIVE sparseTest(_, _, _, _, _)
RECURSIVE sparseResume(_, _, _, _, _)

\* resume_dense: descend; on failure ++coord[lvl] and test the loop again
denseResume(e, it, lvl, size, base) ==
  LET r == advanceIndexAt(e, it, lvl + 1)
  IN IF r.ret THEN [it |-> r.it, ret |-> TRUE]
     ELSE denseTest(e, [r.it EXCEPT !.coord[lvl] = @ + 1], lvl, size, base)

\* a variant of the Dense loop that leaves the parent's position out:
\* ptrs[lvl] = coord[lvl]
denseTestNoBase(e, it, lvl, size, base) ==
  IF it.coord[lvl] < size
    THEN denseResume(e, [it EXCEPT !.ptrs[lvl] = it.coord[lvl]],
                     lvl, size, base)
    ELSE [it |-> it, ret |-> FALSE]

\* coord[lvl] < size: ptrs[lvl] = base + coord[lvl], then the loop body
denseTest(e, it, lvl, size, base) ==
  IF it.coord[lvl] < size
    THEN denseResume(e, [it EXCEPT !.ptrs[lvl] = base + it.coord[lvl]],
                     lvl, size, base)
    ELSE [it |-> it, ret |-> FALSE]

\* resume_sparse: descend; on failure ++ptrs[lvl] and test the loop again
sparseResume(e, it, lvl, pos, k) ==
  LET r == advanceIndexAt(e, it, lvl + 1)
  IN IF r.ret THEN [it |-> r.it, ret |-> TRUE]
     ELSE sparseTest(e, [r.it EXCEPT !.ptrs[lvl] = @ + 1], lvl, pos, k)

\* a variant of the Compressed loop that takes the parent's own position
\* entry as the end of the range: ptrs[lvl] < pos[k]
sparseTestEmptyRange(e, it, lvl, pos, k) ==
  IF it.ptrs[lvl] < Get(pos, k)
    THEN LET idx == getIndexArray(getModeIndex(e.storage.index, lvl), 1)
             read == Touch(Touch(it, "pos", k + 1, Len(pos)),
                           "idx", it.ptrs[lvl], Len(idx))
         IN sparseResume(e,
                         [read EXCEPT !.coord[lvl] = Get(idx, it.ptrs[lvl])],
                         lvl, pos, k)
    ELSE [it |-> Touch(it, "pos", k + 1, Len(pos)), ret |-> FALSE]

\* ptrs[lvl] < pos[k + 1]: coord[lvl] = idx[ptrs[lvl]], then the loop body
sparseTest(e, it, lvl, pos, k) ==
  IF it.ptrs[lvl] < Get(pos, k + 1)
    THEN LET idx == getIndexArray(getModeIndex(e.storage.index, lvl), 1)
             read == Touch(Touch(it, "pos", k + 1, Len(pos)),
                           "idx", it.ptrs[lvl], Len(idx))
         IN sparseResume(e,
                         [read EXCEPT !.coord[lvl] = Get(idx, it.ptrs[lvl])],
                         lvl, pos, k)
    ELSE [it |-> Touch(it, "pos", k + 1, Len(pos)), ret |-> FALSE]

\* bool advanceIndex(size_t lvl), on the cursors it; e holds the tensor
\* declaration, its Storage and what a stray read gives
advanceIndexAt(e, it, lvl) ==
  IF lvl = getOrder(e.t) THEN advanceLeaf(e, it, lvl)
  ELSE
    LET modeIndex == getModeIndex(e.storage.index, lvl)
    IN IF e.t.modeTypes[lvl] = Dense THEN
         LET size == Get(getIndexArray(modeIndex, 0), 0)
             prev == IF lvl = 0 THEN e.stray ELSE it.ptrs[lvl - 1]
             base == IF lvl = 0 THEN 0 ELSE prev * size
             read == Touch(Touch(it, "ptrs", lvl - 1, getOrder(e.t)),
                           "coord", lvl, getOrder(e.t))
         IN IF it.advance THEN denseResume(e, read, lvl, size, base)
            ELSE denseTest(e, [read EXCEPT !.coord[lvl] = 0], lvl, size, base)
       ELSE
         LET pos == getIndexArray(modeIndex, 0)
             k == IF lvl = 0 THEN 0 ELSE it.ptrs[lvl - 1]
             parent == IF lvl = 0 THEN it
                       ELSE Touch(it, "ptrs", lvl - 1, getOrder(e.t))
             read == Touch(parent, "ptrs", lvl, getOrder(e.t))
         IN IF it.advance THEN sparseResume(e, read, lvl, pos, k)
            ELSE sparseTest(e, [Touch(read, "pos", k, Len(pos))
                                  EXCEPT !.ptrs[lvl] = Get(pos, k)],
                            lvl, pos, k)

\* void advanceIndex(): advanceIndex(0); ++count.  walk records what the
\* call reported
advanceIndex(e, it) ==
  LET r == advanceIndexAt(e, it, 0)
  IN [it |-> [r.it EXCEPT !.count = @ + 1], ret |-> r.ret]

\* a variant whose end sentinel starts at getSize() instead of 1 + getSize()
newIteratorOffByOne(t, storage, tensor, isEnd) ==
  [tensor |-> tensor,
   coord |-> Zeros(getOrder(t)),
   ptrs |-> Zeros(getOrder(t)),
   curVal |-> [first |-> Zeros(getOrder(t)), second |-> 0],
   count |-> IF isEnd THEN getSize(t, storage.index) ELSE 1,
   advance |-> FALSE,
   oob |-> {}]

\* const_iterator(tensor, isEnd), before the advanceIndex() of its body
newIterator(t, storage, tensor, isEnd) ==
  [tensor |-> tensor,
   coord |-> Zeros(getOrder(t)),
   ptrs |-> Zeros(getOrder(t)),
   curVal |-> [first |-> Zeros(getOrder(t)), second |-> 0],
   count |-> 1 + (IF isEnd THEN 1 ELSE 0) * getSize(t, storage.index),
   advance |-> FALSE,
   oob |-> {}]

\* const_iterator(tensor, isEnd): the members, then advanceIndex()
const_iterator(e, tensor, isEnd) ==
  advanceIndex(e, newIterator(e.t, e.storage, tensor, isEnd))

\* const_iterator::operator==
IterEq(a, b) == a.tensor = b.tensor /\ a.count = b.count

RECURSIVE loopFrom(_, _, _, _)
\* what for (it = begin(); it != end(); ++it) dereferences from it on (at
\* most fuel elements)
loopFrom(e, it, endIt, fuel) ==
  IF IterEq(it, endIt) \/ fuel = 0 THEN <<>>
  ELSE <<it.curVal>> \o loopFrom(e, advanceIndex(e, it).it, endIt, fuel - 1)

\* the sequence a range-based for loop over a tensor with the given
\* Storage produces
TraversalOf(t, st) ==
  LET e == [t |-> t, storage |-> st, stray |-> 0]
  IN loopFrom(e, const_iterator(e, 1, FALSE).it, const_iterator(e, 1, TRUE).it,
              getSize(t, st.index) + 1)

\* a variant of getCSRArrays that takes the two index arrays in the other
\* order
getCSRArraysSwapped(st) ==
  [rowptr |-> getIndexArray(getModeIndex(st.index, 1), 1),
   colidx |-> getIndexArray(getModeIndex(st.index, 1), 0),
   vals |-> st.values]

\* getCSRArrays: the position and coordinate arrays of level 1 and the
\* value array of a CSR tensor
getCSRArrays(st) ==
  [rowptr |-> getIndexArray(getModeIndex(st.index, 1), 0),
   colidx |-> getIndexArray(getModeIndex(st.index, 1), 1),
   vals |-> st.values]

\* --------------------------------------------------------------- state
VARIABLES
  tensor,            \* the declaration of the tensor (Content: dimensions,
                     \* Format, component type)
  storage,           \* Content: the packed Storage, NoStorage before a pack
  coordinateBuffer,  \* the vector<char> behind the shared_ptr: its size in
                     \* bytes and the records it holds
  handles,           \* per handle (TensorBase object): coordinateBufferUsed
  iters,             \* per const_iterator object: its members, and what the
                     \* loop driving it has seen
  call,              \* the last call: the operation, the error it raised
                     \* ("none" if it returned) and, for pack, the number of
                     \* pending records it found (for makeCSR and makeCSC,
                     \* the length of the dimensions vector it was given)
  inserted,          \* the set of records insert accepted, through any
                     \* handle, since the last pack that succeeded
  packed,            \* what inserted was when pack last succeeded
  transposed,        \* the tensor a call of transpose returned: a tensor of
                     \* its own (declaration, Storage, coordinate buffer),
                     \* NoTensor before the call
  made,              \* the tensor makeCSR or makeCSC returned: declaration,
                     \* Storage, the arrays behind it (who they belong to,
                     \* how they are tagged, how often they were freed) and
                     \* the number of handles that refer to it; NoTensor
                     \* before the call
  constructed        \* the tensor a constructor of Tensor<CType> that takes a
                     \* dimensions vector and a ModeType last made, with the
                     \* arguments it was given; NoTensor before the call

vars == <<tensor, storage, coordinateBuffer, handles, iters, call, inserted,
          packed, transposed, made, constructed>>

\* a Content that was never packed holds no index and no values
NoStorage == [index |-> <<>>, values |-> <<>>]
\* a handle, or an iterator, that does not exist (yet)
NoHandle == [live |-> FALSE]
NoIter == [live |-> FALSE]
\* no tensor was returned by transpose (yet)
NoTensor == [live |-> FALSE]

\* handle 1 is the constructed tensor, handle 2 a copy of it
H == {1, 2}
\* the const_iterator objects of the model
I == {1, 2}

\* the orders of the tensors of the model (0: a scalar)
Orders == {0, 1, 2}

ComponentTypes == {"Float64", "Int32"}

\* the tensors the constructors can declare, within the bounds
TensorDecls ==
  UNION {
    {[order |-> n, modeTypes |-> mt, modeOrdering |-> mo, dims |-> d,
      ctype |-> "Float64"] :
       mt \in [Levels(n) -> {Dense, Sparse}],
       mo \in Permutations0(n),
       d \in [Levels(n) -> 1 .. MaxDim]} : n \in Orders}

\* the declarations of the tensors whose whole life is explored
LifeDecls == {t \in TensorDecls : getOrder(t) <= 1}

\* a matrix with two Dense levels
IsDenseMatrix(t) ==
  /\ getOrder(t) = 2
  /\ t.modeTypes[0] = Dense /\ t.modeTypes[1] = Dense

\* the number of records a handle of the tensor may have pending in the
\* model: MaxInserts, and every cell of a Dense matrix of at most MaxCells
\* cells
MaxPending(t) ==
  IF IsDenseMatrix(t) /\ t.dims[0] * t.dims[1] <= MaxCells
                      /\ t.dims[0] * t.dims[1] > MaxInserts
    THEN t.dims[0] * t.dims[1]
    ELSE MaxInserts

\* the value given to the next insert through handle h: one value per
\* handle and pending record (0 is what a slot no record fills holds)
ValueOf(h) ==
  (h - 1) * MaxInserts
    + handles[h].coordinateBufferUsed \div coordinateSize(tensor) + 1

\* the coordinate vectors of a given length insert is given: every
\* component up to MaxDim, which no declared dimension contains
Coordinates(len) == [Levels(len) -> 0 .. MaxDim]

\* the environment of a traversal step
Env(stray) == [t |-> tensor, storage |-> storage, stray |-> stray]

\* the records a handle sees as pending: the first coordinateBufferUsed
\* bytes of the buffer
Pending(h) ==
  SubSeq(coordinateBuffer.data, 1,
         handles[h].coordinateBufferUsed \div coordinateSize(tensor))

\* Tensor::end() of a handle, as the loop condition it != end() builds it
end(h, stray) == const_iterator(Env(stray), h, TRUE).it

Call(op, error, n) == [op |-> op, err |-> error, pending |-> n]

\* ------------------------------------------------------------- actions
\* the constructors, for one of the given declarations: an empty
\* coordinate buffer, nothing used, no Storage
Construct(decls) ==
  /\ tensor \in decls
  /\ storage = NoStorage
  /\ coordinateBuffer = [size |-> 0, data |-> <<>>]
  /\ handles = [h \in H |-> IF h = 1
                              THEN [live |-> TRUE, coordinateBufferUsed |-> 0]
                            ELSE NoHandle]
  /\ iters = [i \in I |-> NoIter]
  /\ call = Call("Tensor", "none", 0)
  /\ inserted = {}
  /\ packed = {}
  /\ transposed = NoTensor
  /\ made = NoTensor
  /\ constructed = NoTensor

\* a tensor of any declaration of the model has been constructed
Init == Construct(TensorDecls)

\* a tensor whose whole life is explored has been constructed
InitLife == Construct(LifeDecls)

\* the declarations of the tensors with few cells: scalars, vectors, and
\* the matrices of at most MaxCells cells
SmallDecls ==
  {t \in TensorDecls :
     getOrder(t) = 2 => t.dims[0] * t.dims[1] <= MaxCells}

\* a tensor with few cells has been constructed
InitSmall == Construct(SmallDecls)

\* a variant of the growth step that doubles the buffer: one record when
\* it is empty, twice its size otherwise
growDoubles(buf, used) ==
  IF buf.size - used < coordinateSize(tensor)
    THEN [size |-> IF buf.size = 0 THEN coordinateSize(tensor)
                   ELSE 2 * buf.size,
          data |-> buf.data
                     \o [j \in 1 .. (IF buf.size = 0 THEN 1
                                     ELSE Len(buf.data)) |->
                           ZeroRecord(tensor)]]
    ELSE buf

\* coordinateBuffer->resize(size() + coordinateSize) when the free space is
\* less than one record
grow(buf, used) ==
  IF buf.size - used < coordinateSize(tensor)
    THEN [size |-> buf.size + coordinateSize(tensor),
          data |-> Append(buf.data, ZeroRecord(tensor))]
    ELSE buf

\* a variant of the body of insert that merges duplicates: a record whose
\* coordinate is pending already is written over the pending one
insertWriteMerges(h, coordinate, value) ==
  LET used == handles[h].coordinateBufferUsed
      buf == grow(coordinateBuffer, used)
      slot == used \div coordinateSize(tensor)
      same == {j \in 1 .. slot : coordinateBuffer.data[j].coord = coordinate}
  IN IF same = {}
       THEN /\ coordinateBuffer' =
                 [buf EXCEPT !.data[slot + 1] =
                    [coord |-> coordinate, val |-> value]]
            /\ handles' = [handles EXCEPT
                 ![h].coordinateBufferUsed = used + coordinateSize(tensor)]
       ELSE /\ coordinateBuffer' =
                 [coordinateBuffer EXCEPT !.data[CHOOSE j \in same : TRUE] =
                    [coord |-> coordinate, val |-> value]]
            /\ UNCHANGED handles

\* the body of insert after its two assertions: grow, write the record at
\* offset coordinateBufferUsed, add coordinateSize to coordinateBufferUsed
insertWrite(h, coordinate, value) ==
  LET used == handles[h].coordinateBufferUsed
      buf == grow(coordinateBuffer, used)
      slot == used \div coordinateSize(tensor)
  IN /\ coordinateBuffer' =
          [buf EXCEPT !.data[slot + 1] = [coord |-> coordinate, val |-> value]]
     /\ handles' = [handles EXCEPT
          ![h].coordinateBufferUsed = used + coordinateSize(tensor)]

\* a variant of insert that writes the record first and checks after
insertChecksLate(h, coordinate, value, kind) ==
  /\ handles[h].live
  /\ handles[h].coordinateBufferUsed \div coordinateSize(tensor)
       < MaxPending(tensor)
  /\ insertWrite(h, coordinate, value)
  /\ IF Cardinality(DOMAIN coordinate) # getOrder(tensor)
       THEN /\ call' = Call("insert", "DimensionMismatch", 0)
            /\ UNCHANGED inserted
     ELSE IF kind # tensor.ctype
       THEN /\ call' = Call("insert", "TypeMismatch", 0)
            /\ UNCHANGED inserted
     ELSE /\ inserted' = inserted \cup {[coord |-> coordinate, val |-> value]}
          /\ call' = Call("insert", "none", 0)
  /\ UNCHANGED <<transposed, made, constructed>>
  /\ UNCHANGED <<tensor, storage, iters, packed>>

\* a variant of insert that drops the packed Storage when it accepts a
\* record
insertInvalidates(h, coordinate, value, kind) ==
  /\ handles[h].live
  /\ IF Cardinality(DOMAIN coordinate) # getOrder(tensor)
       THEN /\ call' = Call("insert", "DimensionMismatch", 0)
            /\ UNCHANGED <<coordinateBuffer, handles, inserted, storage>>
     ELSE IF kind # tensor.ctype
       THEN /\ call' = Call("insert", "TypeMismatch", 0)
            /\ UNCHANGED <<coordinateBuffer, handles, inserted, storage>>
     ELSE /\ handles[h].coordinateBufferUsed \div coordinateSize(tensor)
               < MaxPending(tensor)
          /\ insertWrite(h, coordinate, value)
          /\ inserted' = inserted \cup {[coord |-> coordinate, val |-> value]}
          /\ storage' = packStorage(tensor, <<>>)
          /\ call' = Call("insert", "none", 0)
  /\ UNCHANGED <<transposed, made, constructed>>
  /\ UNCHANGED <<tensor, iters, packed>>

\* TensorBase::insert(coordinate, value) through handle h, the value being
\* of the given kind
insert(h, coordinate, value, kind) ==
  /\ handles[h].live
  /\ IF Cardinality(DOMAIN coordinate) # getOrder(tensor)
       THEN /\ call' = Call("insert", "DimensionMismatch", 0)
            /\ UNCHANGED <<coordinateBuffer, handles, inserted>>
     ELSE IF kind # tensor.ctype
       THEN /\ call' = Call("insert", "TypeMismatch", 0)
            /\ UNCHANGED <<coordinateBuffer, handles, inserted>>
     ELSE /\ handles[h].coordinateBufferUsed \div coordinateSize(tensor)
               < MaxPending(tensor)
          /\ insertWrite(h, coordinate, value)
          /\ inserted' = inserted \cup {[coord |-> coordinate, val |-> value]}
          /\ call' = Call("insert", "none", 0)
  /\ UNCHANGED <<transposed, made, constructed>>
  /\ UNCHANGED <<tensor, storage, iters, packed>>

RECURSIVE InBoundsPrefix(_, _)
\* the records of a sequence before its first out-of-bounds record
InBoundsPrefix(t, recs) ==
  IF recs = <<>> \/ ~InBounds(t, Head(recs).coord) THEN <<>>
  ELSE <<Head(recs)>> \o InBoundsPrefix(t, Tail(recs))

\* a variant of pack that has replaced the Storage by the records before
\* the out-of-bounds one when it fails
packPartial(h) ==
  /\ handles[h].live
  /\ \A i \in I : ~iters[i].live
  /\ LET recs == Pending(h)
     IN IF \E j \in 1 .. Len(recs) : ~InBounds(tensor, recs[j].coord)
          THEN /\ call' = Call("pack", "OutOfBounds", Len(recs))
               /\ storage' = packStorage(tensor, InBoundsPrefix(tensor, recs))
               /\ UNCHANGED <<handles, inserted, packed>>
        ELSE IF recs = <<>> /\ storage # NoStorage
          THEN /\ call' = Call("pack", "none", 0)
               /\ UNCHANGED <<storage, handles, inserted, packed>>
        ELSE /\ storage' = packStorage(tensor, recs)
             /\ handles' = [handles EXCEPT ![h].coordinateBufferUsed = 0]
             /\ inserted' = {}
             /\ packed' = inserted
             /\ call' = Call("pack", "none", Len(recs))
  /\ UNCHANGED <<transposed, made, constructed>>
  /\ UNCHANGED <<tensor, coordinateBuffer, iters>>

\* a variant of pack that packs an empty buffer into an empty Storage also
\* when a Storage exists
packAlways(h) ==
  /\ handles[h].live
  /\ \A i \in I : ~iters[i].live
  /\ LET recs == Pending(h)
     IN IF \E j \in 1 .. Len(recs) : ~InBounds(tensor, recs[j].coord)
          THEN /\ call' = Call("pack", "OutOfBounds", Len(recs))
               /\ UNCHANGED <<storage, handles, inserted, packed>>
        ELSE /\ storage' = packStorage(tensor, recs)
             /\ handles' = [handles EXCEPT ![h].coordinateBufferUsed = 0]
             /\ inserted' = {}
             /\ packed' = inserted
             /\ call' = Call("pack", "none", Len(recs))
  /\ UNCHANGED <<transposed, made, constructed>>
  /\ UNCHANGED <<tensor, coordinateBuffer, iters>>

\* a variant of pack that gives the buffer's space back when it succeeds
packShrinks(h) ==
  /\ handles[h].live
  /\ \A i \in I : ~iters[i].live
  /\ LET recs == Pending(h)
     IN IF \E j \in 1 .. Len(recs) : ~InBounds(tensor, recs[j].coord)
          THEN /\ call' = Call("pack", "OutOfBounds", Len(recs))
               /\ UNCHANGED <<storage, handles, inserted, packed,
                              coordinateBuffer>>
        ELSE IF recs = <<>> /\ storage # NoStorage
          THEN /\ call' = Call("pack", "none", 0)
               /\ UNCHANGED <<storage, handles, inserted, packed,
                              coordinateBuffer>>
        ELSE /\ storage' = packStorage(tensor, recs)
             /\ handles' = [handles EXCEPT ![h].coordinateBufferUsed = 0]
             /\ coordinateBuffer' = [size |-> 0, data |-> <<>>]
             /\ inserted' = {}
             /\ packed' = inserted
             /\ call' = Call("pack", "none", Len(recs))
  /\ UNCHANGED <<transposed, made, constructed>>
  /\ UNCHANGED <<tensor, iters>>

\* TensorBase::pack() through handle h
pack(h) ==
  /\ handles[h].live
  /\ \A i \in I : ~iters[i].live
  /\ LET recs == Pending(h)
     IN IF \E j \in 1 .. Len(recs) : ~InBounds(tensor, recs[j].coord)
          THEN /\ call' = Call("pack", "OutOfBounds", Len(recs))
               /\ UNCHANGED <<storage, handles, inserted, packed>>
        ELSE IF recs = <<>> /\ storage # NoStorage
          THEN /\ call' = Call("pack", "none", 0)
               /\ UNCHANGED <<storage, handles, inserted, packed>>
        ELSE /\ storage' = packStorage(tensor, recs)
             /\ handles' = [handles EXCEPT ![h].coordinateBufferUsed = 0]
             /\ inserted' = {}
             /\ packed' = inserted
             /\ call' = Call("pack", "none", Len(recs))
  /\ UNCHANGED <<transposed, made, constructed>>
  /\ UNCHANGED <<tensor, coordinateBuffer, iters>>

\* the copy constructor of a handle: the Content and coordinateBuffer
\* pointers and the value of coordinateBufferUsed are copied
copy(h, g) ==
  /\ handles[h].live
  /\ ~handles[g].live
  /\ handles' = [handles EXCEPT ![g] = handles[h]]
  /\ call' = Call("copy", "none", 0)
  /\ UNCHANGED <<transposed, made, constructed>>
  /\ UNCHANGED <<tensor, storage, coordinateBuffer, iters, inserted, packed>>

\* what a loop for (it = begin(); it != end(); ++it) has dereferenced once
\* it holds the iterator it
Seen(seen, it, h, stray) ==
  IF IterEq(it, end(h, stray)) THEN seen ELSE Append(seen, it.curVal)

\* the leaves the walk has reported (advanceIndex(0) returned true): the
\* cursors and curVal at each
Leaves(leaves, r) ==
  IF r.ret
    THEN Append(leaves, [coord |-> r.it.coord, ptrs |-> r.it.ptrs,
                         curVal |-> r.it.curVal])
    ELSE leaves

\* it = Tensor::begin() through handle h
begin(i, h, stray) ==
  /\ handles[h].live
  /\ storage # NoStorage
  /\ ~iters[i].live
  /\ LET r == const_iterator(Env(stray), h, FALSE)
     IN iters' = [iters EXCEPT ![i] =
          [live |-> TRUE, it |-> r.it, steps |-> 0, ret |-> r.ret,
           seen |-> Seen(<<>>, r.it, h, stray),
           leaves |-> Leaves(<<>>, r)]]
  /\ call' = Call("begin", "none", 0)
  /\ UNCHANGED <<transposed, made, constructed>>
  /\ UNCHANGED <<tensor, storage, coordinateBuffer, handles, inserted, packed>>

\* a variant of ++it in which the cursors are shared by the iterators of
\* the tensor: every live iterator holds the advanced members
incrementShared(i, stray) ==
  /\ iters[i].live
  /\ ~IterEq(iters[i].it, end(iters[i].it.tensor, stray))
  /\ iters[i].steps <= getSize(tensor, storage.index)
  /\ LET r == advanceIndex(Env(stray), iters[i].it)
     IN iters' = [j \in I |->
          IF j = i
            THEN [live |-> TRUE, it |-> r.it, steps |-> iters[i].steps + 1,
                  ret |-> r.ret,
                  seen |-> Seen(iters[i].seen, r.it, r.it.tensor, stray),
                  leaves |-> Leaves(iters[i].leaves, r)]
            ELSE IF iters[j].live
                   THEN [iters[j] EXCEPT !.it = [r.it EXCEPT !.tensor =
                                                   iters[j].it.tensor]]
                   ELSE iters[j]]
  /\ call' = Call("increment", "none", 0)
  /\ UNCHANGED <<transposed, made, constructed>>
  /\ UNCHANGED <<tensor, storage, coordinateBuffer, handles, inserted, packed>>

\* ++it, while it != end()
increment(i, stray) ==
  /\ iters[i].live
  /\ ~IterEq(iters[i].it, end(iters[i].it.tensor, stray))
  /\ iters[i].steps <= getSize(tensor, storage.index)
  /\ LET r == advanceIndex(Env(stray), iters[i].it)
     IN iters' = [iters EXCEPT ![i] =
          [live |-> TRUE, it |-> r.it, steps |-> iters[i].steps + 1,
           ret |-> r.ret,
           seen |-> Seen(iters[i].seen, r.it, r.it.tensor, stray),
           leaves |-> Leaves(iters[i].leaves, r)]]
  /\ call' = Call("increment", "none", 0)
  /\ UNCHANGED <<transposed, made, constructed>>
  /\ UNCHANGED <<tensor, storage, coordinateBuffer, handles, inserted, packed>>

\* ++it on an iterator that has reached end(): operator++ calls
\* advanceIndex() whatever the iterator compares equal to.  The loop that
\* drove the iterator has ended, so it has seen nothing more.
incrementPastEnd(i, stray) ==
  /\ iters[i].live
  /\ iters[i].it.count >= end(iters[i].it.tensor, stray).count
  /\ iters[i].steps <= getSize(tensor, storage.index) + 1
  /\ LET r == advanceIndex(Env(stray), iters[i].it)
     IN iters' = [iters EXCEPT ![i] =
          [live |-> TRUE, it |-> r.it, steps |-> iters[i].steps + 1,
           ret |-> r.ret,
           seen |-> iters[i].seen,
           leaves |-> Leaves(iters[i].leaves, r)]]
  /\ call' = Call("incrementPastEnd", "none", 0)
  /\ UNCHANGED <<transposed, made, constructed>>
  /\ UNCHANGED <<tensor, storage, coordinateBuffer, handles, inserted, packed>>

\* the iterator goes out of scope
release(i) ==
  /\ iters[i].live
  /\ iters' = [iters EXCEPT ![i] = NoIter]
  /\ call' = Call("release", "none", 0)
  /\ UNCHANGED <<transposed, made, constructed>>
  /\ UNCHANGED <<tensor, storage, coordinateBuffer, handles, inserted, packed>>

\* The life of a tensor through one handle: inserts that are accepted (in
\* bounds or not) and inserts that are rejected, packs and re-packs,
\* traversals.
Next ==
  \/ \E c \in Coordinates(getOrder(tensor)) :
       insert(1, c, ValueOf(1), tensor.ctype)
  \/ \E len \in {getOrder(tensor) - 1, getOrder(tensor) + 1} \cap Nat :
       insert(1, Zeros(len), ValueOf(1), tensor.ctype)
  \/ \E k \in ComponentTypes \ {tensor.ctype} :
       insert(1, Zeros(getOrder(tensor)), ValueOf(1), k)
  \/ pack(1)
  \/ \E s \in StrayReads : begin(1, 1, s)
  \/ \E s \in StrayReads : increment(1, s)
  \/ release(1)

Spec == InitLife /\ [][Next]_vars

\* A fresh tensor of any format filled through one handle with in-bounds
\* records, packed once and traversed once.
NextPack ==
  \/ \E c \in Coordinates(getOrder(tensor)) :
       /\ storage = NoStorage
       /\ InBounds(tensor, c)
       /\ insert(1, c, ValueOf(1), tensor.ctype)
  \/ storage = NoStorage /\ pack(1)
  \/ \E s \in StrayReads : begin(1, 1, s)
  \/ \E s \in StrayReads : increment(1, s)

SpecPack == Init /\ [][NextPack]_vars

\* A tensor and a copy of its handle: in-bounds inserts and packs through
\* both.
NextAlias ==
  \/ copy(1, 2)
  \/ \E h \in H, c \in Coordinates(getOrder(tensor)) :
       /\ InBounds(tensor, c)
       /\ insert(h, c, ValueOf(h), tensor.ctype)
  \/ \E h \in H : pack(h)

SpecAlias == InitLife /\ [][NextAlias]_vars

\* ---------------------------------------------------------- transpose
\* the Formats a tensor of the given order can be declared with
Formats(order) ==
  [modeTypes : [Levels(order) -> {Dense, Sparse}],
   modeOrdering : Permutations0(order)]

\* newDimensions: for (mode : newModeOrdering) push_back(getDimensions()[mode])
newDimensions(t, newModeOrdering) ==
  [i \in Levels(getOrder(t)) |-> t.dims[newModeOrdering[i]]]

\* a variant of newCoordinate that keeps the modes in the source's order
newCoordinateSameOrder(t, first, newModeOrdering) ==
  [i \in Levels(getOrder(t)) |-> first[i]]

\* newCoordinate: for (mode : newModeOrdering) push_back(value.first[mode])
newCoordinate(t, first, newModeOrdering) ==
  [i \in Levels(getOrder(t)) |-> first[newModeOrdering[i]]]

\* Tensor<CType> newTensor(name, newDimensions, format): a tensor of its
\* own, with an empty coordinate buffer and no Storage
newTensor(t, dimensions, format) ==
  [live |-> TRUE,
   t |-> [order |-> getOrder(t), modeTypes |-> format.modeTypes,
          modeOrdering |-> format.modeOrdering, dims |-> dimensions,
          ctype |-> t.ctype],
   storage |-> NoStorage,
   coordinateBuffer |-> [size |-> 0, data |-> <<>>],
   coordinateBufferUsed |-> 0]

\* the records pending in the buffer of a tensor object
PendingOf(o) ==
  SubSeq(o.coordinateBuffer.data, 1,
         o.coordinateBufferUsed \div coordinateSize(o.t))

\* o.insert(coordinate, value) with a coordinate of the tensor's order and
\* a value of its component type: the tensor object after the call
insertInto(o, coordinate, value) ==
  LET used == o.coordinateBufferUsed
      buf == IF o.coordinateBuffer.size - used < coordinateSize(o.t)
               THEN [size |-> o.coordinateBuffer.size + coordinateSize(o.t),
                     data |-> Append(o.coordinateBuffer.data, ZeroRecord(o.t))]
               ELSE o.coordinateBuffer
      slot == used \div coordinateSize(o.t)
  IN [o EXCEPT
        !.coordinateBuffer =
           [buf EXCEPT !.data[slot + 1] = [coord |-> coordinate, val |-> value]],
        !.coordinateBufferUsed = used + coordinateSize(o.t)]

RECURSIVE insertAll(_, _, _, _, _)
\* for (value : *this) newTensor.insert(newCoordinate, value.second), from
\* the k-th element of the traversal on
insertAll(o, t, elems, newModeOrdering, k) ==
  IF k > Len(elems) THEN o
  ELSE insertAll(
         insertInto(o, newCoordinate(t, elems[k].first, newModeOrdering),
                    elems[k].second),
         t, elems, newModeOrdering, k + 1)

\* o.pack(): the tensor object after the call
packOf(o) ==
  LET recs == PendingOf(o)
  IN IF \E j \in 1 .. Len(recs) : ~InBounds(o.t, recs[j].coord) THEN o
     ELSE IF recs = <<>> /\ o.storage # NoStorage THEN o
     ELSE [o EXCEPT !.storage = packStorage(o.t, recs),
                    !.coordinateBufferUsed = 0]

\* Tensor::transpose(name, newModeOrdering, format) of the tensor: the
\* tensor it returns is kept, with the arguments of the call
transpose(newModeOrdering, format) ==
  /\ handles[1].live
  /\ storage # NoStorage
  /\ ~transposed.live
  /\ LET fresh == newTensor(tensor, newDimensions(tensor, newModeOrdering),
                            format)
         filled == insertAll(fresh, tensor, TraversalOf(tensor, storage),
                             newModeOrdering, 1)
         new == packOf(filled)
     IN transposed' =
          [live |-> TRUE, t |-> new.t, storage |-> new.storage,
           coordinateBuffer |-> new.coordinateBuffer,
           coordinateBufferUsed |-> new.coordinateBufferUsed,
           newModeOrdering |-> newModeOrdering]
  /\ call' = Call("transpose", "none", 0)
  /\ UNCHANGED <<tensor, storage, coordinateBuffer, handles, iters, inserted,
                 packed, made, constructed>>

\* insert(coordinate, value) on the tensor transpose returned
transposedInsert(coordinate, value) ==
  /\ transposed.live
  /\ transposed' = insertInto(transposed, coordinate, value)
  /\ call' = Call("transposed.insert", "none", 0)
  /\ UNCHANGED <<tensor, storage, coordinateBuffer, handles, iters, inserted,
                 packed, made, constructed>>

\* pack() on the tensor transpose returned
transposedPack ==
  /\ transposed.live
  /\ transposed' = packOf(transposed)
  /\ call' = Call("transposed.pack", "none", Len(PendingOf(transposed)))
  /\ UNCHANGED <<tensor, storage, coordinateBuffer, handles, iters, inserted,
                 packed, made, constructed>>

\* the rank of a coordinate of order <= 2 in row-major order
Rank(c) ==
  IF DOMAIN c = {} THEN 0
  ELSE IF DOMAIN c = {0} THEN c[0]
  ELSE c[0] * (MaxDim + 1) + c[1]

\* A tensor of any format filled with in-bounds records at distinct
\* coordinates (given in row-major order) and packed, then transposed;
\* after that, by turns, an insert at the origin followed by a pack on the
\* source, and the same on the tensor transpose returned, either first.
NextTranspose ==
  \/ \E c \in Coordinates(getOrder(tensor)) :
       /\ storage = NoStorage
       /\ InBounds(tensor, c)
       /\ Len(Pending(1)) < MaxInserts
       /\ \A j \in 1 .. Len(Pending(1)) : Rank(Pending(1)[j].coord) < Rank(c)
       /\ insert(1, c, ValueOf(1), tensor.ctype)
  \/ storage = NoStorage /\ pack(1)
  \/ \E p \in Permutations0(getOrder(tensor)), f \in Formats(getOrder(tensor)) :
       transpose(p, f)
  \/ /\ call.op \in {"transpose", "transposed.pack"}
     /\ insert(1, Zeros(getOrder(tensor)), ValueOf(1), tensor.ctype)
  \/ transposed.live /\ call.op = "insert" /\ pack(1)
  \/ /\ call.op \in {"transpose", "pack"}
     /\ transposedInsert(Zeros(getOrder(tensor)), MaxInserts + 1)
  \/ call.op = "transposed.insert" /\ transposedPack

SpecTranspose == InitSmall /\ [][NextTranspose]_vars

\* ------------------------------------------------- reference notions
RECURSIVE DepthFirst(_, _, _, _, _)
\* The leaves of a plain recursive depth-first walk over the levels lvl..
\* below the position parentPos: a Dense level visits the coordinates
\* 0..extent-1 in ascending order at position parentPos * extent + coord, a
\* Compressed level visits the positions pos[parentPos]..pos[parentPos+1]-1
\* in ascending order with the coordinate idx[position].  Each leaf is the
\* path of its level coordinates and its position in the value array.
DepthFirst(t, st, lvl, parentPos, path) ==
  IF lvl = getOrder(t) THEN << [path |-> path, pos |-> parentPos] >>
  ELSE IF t.modeTypes[lvl] = Dense THEN
    LET extent == st.index[lvl + 1][1][1]
    IN Flatten([c \in 1 .. extent |->
         DepthFirst(t, st, lvl + 1, parentPos * extent + (c - 1),
                    Extend(path, lvl, c - 1))])
  ELSE
    LET pos == st.index[lvl + 1][1]
        idx == st.index[lvl + 1][2]
        lo == pos[parentPos + 1]
        hi == pos[parentPos + 2]
    IN Flatten([p \in 1 .. (hi - lo) |->
         DepthFirst(t, st, lvl + 1, lo + p - 1,
                    Extend(path, lvl, idx[lo + p]))])

\* the walk of the whole Storage of the tensor
RefLeaves == DepthFirst(tensor, storage, 0, 0, <<>>)

\* the iterator i has been driven to end() by its loop
AtEnd(i) ==
  /\ iters[i].live
  /\ \A s \in StrayReads :
       IterEq(iters[i].it, end(iters[i].it.tensor, s))

\* the (coordinate, value) pairs of a sequence of dereferenced curVal
PairSet(seen) ==
  {[coord |-> seen[k].first, val |-> seen[k].second] : k \in 1 .. Len(seen)}

\* no two records of the set share a coordinate
DistinctCoords(S) == \A a, b \in S : a.coord = b.coord => a = b

\* ------------------------------------------------------------- claims
\* C2: an iterator from begin() incremented k times (0 <= k <= n, n =
\* Index.getSize()) equals end() of the same handle iff k = n (so begin()
\* equals end() iff n = 0), and it equals end() exactly when the last
\* advanceIndex(0) reported exhaustion (returned false).
C2_EndIffAllProduced ==
  \A i \in I : iters[i].live =>
    \A s \in StrayReads :
      LET it == iters[i].it
          n == getSize(tensor, storage.index)
          k == iters[i].steps
          atEnd == IterEq(it, end(it.tensor, s))
      IN /\ k <= n
         /\ atEnd <=> (k = n)
         /\ atEnd <=> ~iters[i].ret

\* C2 witness: an iterator incremented n >= 2 times stands at end()
C2_Witness ==
  /\ AtEnd(1)
  /\ iters[1].steps = getSize(tensor, storage.index)
  /\ iters[1].steps >= 2
  /\ getOrder(tensor) = 2

\* C3: the leaves reported by the constructor's advanceIndex() and the
\* later single steps are, element for element and in order, the leaves of
\* the plain recursive depth-first walk: after c calls the first
\* min(c, number of leaves) leaves were reported, each with the level
\* coordinates and the value position of the reference leaf, none repeated
\* and none skipped, also across empty compressed segments.
C3_WalkIsDepthFirst ==
  \A i \in I : iters[i].live =>
    LET got == iters[i].leaves
        calls == iters[i].steps + 1
        order == getOrder(tensor)
    IN /\ Len(got) = IF calls <= Len(RefLeaves) THEN calls ELSE Len(RefLeaves)
       /\ \A k \in 1 .. Len(got) :
            /\ got[k].coord = RefLeaves[k].path
            /\ order > 0 => got[k].ptrs[order - 1] = RefLeaves[k].pos
            /\ got[k].curVal.second = Get(storage.values, RefLeaves[k].pos)

\* C3 witness: a walk of a (Dense, Compressed) tensor that reported a leaf,
\* was resumed, ran through an empty compressed segment and reported
\* exhaustion
C3_Witness ==
  /\ iters[1].live
  /\ getOrder(tensor) = 2
  /\ tensor.modeTypes[0] = Dense /\ tensor.modeTypes[1] = Sparse
  /\ iters[1].leaves # <<>>
  /\ ~iters[1].ret
  /\ LET pos == getIndexArray(getModeIndex(storage.index, 1), 0)
     IN Len(pos) >= 3 /\ pos[Len(pos)] = pos[Len(pos) - 1]

\* C5: every produced pair carries its coordinate in original-dimension
\* order: the coordinate at index modeOrdering[i] is the level-i coordinate
\* of the leaf's path, for every mode ordering; so a pair with an inserted
\* value is the inserted (coordinate, value) pair.
C5_OriginalOrder ==
  \A i \in I : (iters[i].live /\ iters[i].ret) =>
    LET it == iters[i].it
        leaf == RefLeaves[Len(iters[i].leaves)]
    IN /\ \A l \in Levels(getOrder(tensor)) :
            it.curVal.first[tensor.modeOrdering[l]] = leaf.path[l]
       /\ it.curVal.second # 0 =>
            [coord |-> it.curVal.first, val |-> it.curVal.second] \in packed

\* C5 witness: a leaf of a tensor stored column-major whose row and column
\* differ
C5_Witness ==
  /\ iters[1].live /\ iters[1].ret
  /\ getOrder(tensor) = 2
  /\ tensor.modeOrdering[0] = 1
  /\ iters[1].it.curVal.first[0] # iters[1].it.curVal.first[1]
  /\ iters[1].it.curVal.second # 0

\* the in-bounds coordinates of a tensor
AllCoords(t) == {c \in Coordinates(getOrder(t)) : InBounds(t, c)}

\* the coordinates a Storage packed from the records S holds a slot for: at
\* every Compressed level the path so far is the path of some record, a
\* Dense level holds every coordinate
Stored(t, S) ==
  {c \in AllCoords(t) :
     \A l \in Levels(getOrder(t)) :
       t.modeTypes[l] = Sparse =>
         \E r \in S : \A i \in 0 .. l :
            Permute(t, r.coord)[i] = Permute(t, c)[i]}

\* the pairs of those slots: the inserted value, 0 where no record was
\* inserted
StoredPairs(t, S) ==
  {[coord |-> c,
    val |-> IF \E r \in S : r.coord = c
              THEN (CHOOSE r \in S : r.coord = c).val ELSE 0] :
     c \in Stored(t, S)}

RowMajorLess(a, b) ==
  \/ a.coord[0] < b.coord[0]
  \/ a.coord[0] = b.coord[0] /\ a.coord[1] < b.coord[1]

RECURSIVE SortedTriples(_)
\* the (row, col, value) triples of a set sorted by row, then column
SortedTriples(S) ==
  IF S = {} THEN <<>>
  ELSE LET m == CHOOSE x \in S : \A y \in S \ {x} : RowMajorLess(x, y)
       IN <<m>> \o SortedTriples(S \ {m})

\* the reference CSR arrays built directly from the triples
RefCSR(rows, S) ==
  LET tr == SortedTriples(S)
  IN [rowptr |-> [r \in 1 .. (rows + 1) |->
                    Cardinality({x \in S : x.coord[0] < r - 1})],
      colidx |-> [k \in 1 .. Len(tr) |-> tr[k].coord[1]],
      vals |-> [k \in 1 .. Len(tr) |-> tr[k].val]]

\* the tensor is declared in the CSR format
IsCSR(t) ==
  /\ getOrder(t) = 2
  /\ t.modeTypes[0] = Dense /\ t.modeTypes[1] = Sparse
  /\ t.modeOrdering[0] = 0 /\ t.modeOrdering[1] = 1

\* the 3x3 example: (0,0)=1, (0,2)=2, (2,1)=3, inserted last record first
CSRExampleTensor ==
  [order |-> 2, modeTypes |-> (0 :> Dense @@ 1 :> Sparse),
   modeOrdering |-> (0 :> 0 @@ 1 :> 1), dims |-> (0 :> 3 @@ 1 :> 3),
   ctype |-> "Float64"]

CSRExampleRecords ==
  << [coord |-> (0 :> 2 @@ 1 :> 1), val |-> 3],
     [coord |-> (0 :> 0 @@ 1 :> 0), val |-> 1],
     [coord |-> (0 :> 0 @@ 1 :> 2), val |-> 2] >>

CSRExampleHolds ==
  LET st == packStorage(CSRExampleTensor, CSRExampleRecords)
  IN /\ getCSRArrays(st) =
          [rowptr |-> <<0, 2, 2, 3>>, colidx |-> <<0, 2, 1>>,
           vals |-> <<1, 2, 3>>]
     /\ TraversalOf(CSRExampleTensor, st) =
          << [first |-> (0 :> 0 @@ 1 :> 0), second |-> 1],
             [first |-> (0 :> 0 @@ 1 :> 2), second |-> 2],
             [first |-> (0 :> 2 @@ 1 :> 1), second |-> 3] >>

\* C4: packing pairwise distinct in-bounds (row, col, value) inserts, in
\* any order, into a (Dense, Compressed) matrix gives the reference CSR
\* arrays (rowptr of length rows + 1 counting the inserts of each row, the
\* columns of each row ascending, the values in the same order), and the
\* traversal yields the triples by row, then column; the 3x3 example gives
\* [0,2,2,3], [0,2,1], [1,2,3].
C4_PacksToCSR ==
  /\ CSRExampleHolds
  /\ (IsCSR(tensor) /\ storage # NoStorage /\ DistinctCoords(packed)) =>
       /\ getCSRArrays(storage) = RefCSR(tensor.dims[0], packed)
       /\ \A i \in I : AtEnd(i) =>
            iters[i].seen =
              [k \in 1 .. Cardinality(packed) |->
                 [first |-> SortedTriples(packed)[k].coord,
                  second |-> SortedTriples(packed)[k].val]]

\* C4 witness: a CSR matrix packed from two inserts of one row given with
\* the larger column first, and traversed to the end
C4_Witness ==
  /\ IsCSR(tensor) /\ AtEnd(1)
  /\ Cardinality(packed) = 2
  /\ \E a, b \in packed :
       /\ a.coord[0] = b.coord[0] /\ a.coord[1] > b.coord[1] /\ a.val < b.val

\* the step is an insert through handle h that was accepted
Accepted(h) ==
  /\ handles[h].live
  /\ handles'[h].coordinateBufferUsed
       = handles[h].coordinateBufferUsed + coordinateSize(tensor)

\* the coordinates a Storage holds a slot for
CoordsOf(st) ==
  {TraversalOf(tensor, st)[k].first :
     k \in 1 .. Len(TraversalOf(tensor, st))}

\* C6: after a handle is copied both handles refer to the same tensor for
\* inserts: an insert through one handle overwrites no record pending for
\* the other and the inserted record is pending for the other as well, and
\* a pack through either handle packs every record inserted through both
\* since the last pack.
C6_HandlesShareInserts ==
  [][/\ \A h \in H : Accepted(h) =>
          \A g \in H : handles[g].live =>
            /\ \A j \in 1 .. Len(Pending(g)) :
                 coordinateBuffer'.data[j] = Pending(g)[j]
            /\ handles'[g].coordinateBufferUsed
                 > handles[h].coordinateBufferUsed
     /\ (call'.op = "pack" /\ call'.err = "none") =>
          {r.coord : r \in inserted} \subseteq CoordsOf(storage')
    ]_vars

\* C7: an insert rejected for the length of its coordinate
\* (DimensionMismatch) or the kind of its value (TypeMismatch) fails before
\* any write: the coordinate buffer (contents and size) and the used-bytes
\* count are as before the call.
C7_RejectedInsertWritesNothing ==
  [][(/\ call'.op = "insert"
      /\ call'.err \in {"DimensionMismatch", "TypeMismatch"}) =>
       /\ coordinateBuffer' = coordinateBuffer
       /\ handles' = handles
       /\ inserted' = inserted
    ]_vars

\* C7 witness: a value of another kind was rejected by a tensor with
\* pending records
C7_Witness ==
  /\ call.op = "insert" /\ call.err = "TypeMismatch"
  /\ Len(Pending(1)) >= 1

\* C8: pack() is all-or-nothing: with an out-of-bounds record pending it
\* fails with OutOfBounds and leaves the earlier Storage and the coordinate
\* buffer (contents, size, used count) as they were; the Storage only ever
\* changes, as a whole, to the Storage packed from the pending records, by
\* a pack that succeeds.
C8_PackAllOrNothing ==
  [][/\ (/\ call'.op = "pack"
         /\ \E j \in 1 .. Len(Pending(1)) :
              ~InBounds(tensor, Pending(1)[j].coord)) =>
          /\ call'.err = "OutOfBounds"
          /\ storage' = storage
          /\ coordinateBuffer' = coordinateBuffer
          /\ handles' = handles
     /\ call'.err = "OutOfBounds" => storage' = storage
     /\ storage' # storage =>
          /\ call'.op = "pack" /\ call'.err = "none"
          /\ storage' = packStorage(tensor, Pending(1))
    ]_vars

\* C8 witness: a pack failed on an out-of-bounds record that follows an
\* in-bounds one, on a tensor packed before
C8_Witness ==
  /\ call.op = "pack" /\ call.err = "OutOfBounds"
  /\ packed # {}
  /\ Len(Pending(1)) >= 2
  /\ InBounds(tensor, Pending(1)[1].coord)

\* C9: a pack() that finds the coordinate buffer empty on a packed tensor
\* leaves the Storage of the earlier pack unchanged: index arrays, values,
\* Index.getSize() and the traversal sequence.
C9_SecondPackKeepsStorage ==
  [][(/\ call'.op = "pack" /\ call'.err = "none" /\ call'.pending = 0
      /\ storage # NoStorage) =>
       /\ storage' = storage
       /\ getSize(tensor, storage'.index) = getSize(tensor, storage.index)
       /\ TraversalOf(tensor, storage') = TraversalOf(tensor, storage)
    ]_vars

\* C9 witness: pack() has run on an empty buffer after a pack of records
C9_Witness ==
  /\ call.op = "pack" /\ call.err = "none" /\ call.pending = 0
  /\ packed # {}
  /\ Len(TraversalOf(tensor, storage)) >= 1

\* C10: inserts made after a pack() do not take effect until the next
\* pack(): an insert changes neither the Storage nor an iterator, no call
\* but pack changes the index arrays, the values or Index.getSize(), and
\* whenever an iterator is created or moved, before or after an insert,
\* what it has produced is a prefix of the traversal sequence of the
\* Storage of the last pack.
C10_InsertWaitsForPack ==
  [][/\ call'.op = "insert" =>
          /\ storage' = storage
          /\ iters' = iters
     /\ call'.op # "pack" =>
          /\ storage'.index = storage.index
          /\ storage'.values = storage.values
          /\ storage # NoStorage =>
               getSize(tensor, storage'.index)
                 = getSize(tensor, storage.index)
     /\ \A i \in I : (iters'[i].live /\ iters'[i] # iters[i]) =>
          iters'[i].seen
            = SubSeq(TraversalOf(tensor, storage'), 1, Len(iters'[i].seen))
    ]_vars

\* C10 witness: a traversal of a packed tensor was continued to its end
\* after a record was inserted
C10_Witness ==
  /\ AtEnd(1)
  /\ call.op = "increment"
  /\ Len(iters[1].seen) >= 2
  /\ Len(Pending(1)) >= 1
  /\ \E r \in inserted :
       \A k \in 1 .. Len(iters[1].seen) : iters[1].seen[k].first # r.coord

\* the level invariants of an Index: a Dense level exposes one array
\* holding its extent; a Compressed level has a position array of length
\* parent count + 1 that starts at 0 and does not decrease, and a
\* coordinate array as long as the last position says
ValidIndex(t, index) ==
  /\ Len(index) = getOrder(t)
  /\ \A l \in Levels(getOrder(t)) :
       LET mi == getModeIndex(index, l)
           parents == sizeUpTo(t, index, l)
       IN IF t.modeTypes[l] = Dense
            THEN /\ Len(mi) = 1
                 /\ Len(getIndexArray(mi, 0)) = 1
                 /\ Get(getIndexArray(mi, 0), 0) >= 0
            ELSE /\ Len(mi) = 2
                 /\ Len(getIndexArray(mi, 0)) = parents + 1
                 /\ Get(getIndexArray(mi, 0), 0) = 0
                 /\ \A k \in 0 .. (parents - 1) :
                      Get(getIndexArray(mi, 0), k)
                        <= Get(getIndexArray(mi, 0), k + 1)
                 /\ Len(getIndexArray(mi, 1))
                      = Get(getIndexArray(mi, 0), parents)

\* a structurally valid Storage: a valid Index and one value per leaf entry
ValidStorage(t, st) ==
  /\ ValidIndex(t, st.index)
  /\ Len(st.values) = getSize(t, st.index)

\* some level of the tensor is Compressed
HasSparse(t) == \E l \in Levels(getOrder(t)) : t.modeTypes[l] = Sparse

\* the step is a pack() through handle 1 that succeeded
PackSucceeds == call'.op = "pack" /\ call'.err = "none"

CellAt(t, k) ==
  LET extent1 == t.dims[t.modeOrdering[1]]
  IN [m \in Levels(2) |->
        IF m = t.modeOrdering[0] THEN k \div extent1 ELSE k % extent1]

\* the value a set of records with distinct coordinates gives a coordinate
ValueAt(S, c) == (CHOOSE r \in S : r.coord = c).val

\* every cell of the tensor was inserted exactly once before the last pack
EveryCellOnce ==
  /\ storage # NoStorage
  /\ DistinctCoords(packed)
  /\ {r.coord : r \in packed} = AllCoords(tensor)

\* C12: a fully Dense matrix of shape (R, C) in which every cell was
\* inserted exactly once and which was then packed has Index.getSize() =
\* R*C, and its traversal produces all R*C coordinates, without gap or
\* repeat, in the order of the declared mode ordering (row-major for the
\* identity ordering), each with the value inserted at that coordinate,
\* read from the value slot row*C + col.
C12_DenseRowMajor ==
  (IsDenseMatrix(tensor) /\ EveryCellOnce) =>
    LET cells == tensor.dims[0] * tensor.dims[1]
    IN /\ getSize(tensor, storage.index) = cells
       /\ Len(storage.values) = cells
       /\ \A i \in I : iters[i].live =>
            LET seen == iters[i].seen
            IN /\ AtEnd(i) => Len(seen) = cells
               /\ Len(seen) <= cells
               /\ \A k \in 1 .. Len(seen) :
                    /\ seen[k].first = CellAt(tensor, k - 1)
                    /\ seen[k].second = ValueAt(packed, seen[k].first)
                    /\ seen[k].second = Get(storage.values, k - 1)
                    /\ iters[i].leaves[k].ptrs[1] = k - 1
                    /\ tensor.modeOrdering[0] = 0 =>
                         k - 1 = seen[k].first[0] * tensor.dims[1]
                                   + seen[k].first[1]

\* C12 witness: a 2x2 Dense matrix with the identity ordering whose four
\* cells were inserted last row first, packed and traversed to the end
C12_Witness ==
  /\ IsDenseMatrix(tensor) /\ EveryCellOnce /\ AtEnd(1)
  /\ tensor.dims[0] = 2 /\ tensor.dims[1] = 2
  /\ tensor.modeOrdering[0] = 0
  /\ ValueAt(packed, (0 :> 1 @@ 1 :> 0)) = 1
  /\ ValueAt(packed, (0 :> 0 @@ 1 :> 1)) = 4
  /\ Len(iters[1].seen) = 4

\* the step is a call of transpose
Transposes == call'.op = "transpose"

\* the elements of the source mapped by newModeOrdering: (c', v) with
\* c'[i] = c[newModeOrdering[i]] for every element (c, v) of the source
Mapped ==
  {[coord |-> [i \in Levels(getOrder(tensor)) |->
                 r.coord[transposed'.newModeOrdering[i]]],
    val |-> r.val] : r \in PairSet(TraversalOf(tensor, storage))}

\* the elements of the tensor transpose has returned
Returned == TraversalOf(transposed'.t, transposed'.storage)

\* transpose leaves its source alone, and the tensor it returns is packed
\* and has the dimensions d'[i] = d[newModeOrdering[i]]
TransposeFrame ==
  /\ storage' = storage
  /\ coordinateBuffer' = coordinateBuffer
  /\ handles' = handles
  /\ iters' = iters
  /\ transposed'.storage # NoStorage
  /\ transposed'.coordinateBufferUsed = 0
  /\ \A i \in Levels(getOrder(tensor)) :
       transposed'.t.dims[i] = tensor.dims[transposed'.newModeOrdering[i]]

\* later inserts and packs on either tensor are not visible through the
\* other
Independent ==
  /\ call'.op \in {"insert", "pack"} => transposed' = transposed
  /\ call'.op \in {"transposed.insert", "transposed.pack"} =>
       /\ storage' = storage
       /\ coordinateBuffer' = coordinateBuffer
       /\ handles' = handles

CSR ==
  [modeTypes |-> (0 :> Dense @@ 1 :> Sparse),
   modeOrdering |-> (0 :> 0 @@ 1 :> 1)]

CSC ==
  [modeTypes |-> (0 :> Dense @@ 1 :> Sparse),
   modeOrdering |-> (0 :> 1 @@ 1 :> 0)]

\* Tensor<T> tensor(name, dimensions, format) for a dimensions vector of
\* length 2
matrixDecl(dimensions, format) ==
  [order |-> 2, modeTypes |-> format.modeTypes,
   modeOrdering |-> format.modeOrdering,
   dims |-> [i \in Levels(2) |-> Get(dimensions, i)], ctype |-> "Float64"]

\* storage::makeCSRIndex / makeCSCIndex(extent, ptr, idx): a Dense level
\* of the given extent over a Compressed level with the given arrays
makeIndex(extent, ptr, idx) == << << <<extent>> >>, <<ptr, idx>> >>

\* storage::makeCSRIndex / makeCSCIndex(ptr, idx) of two vectors: the
\* extent is what the position vector has room for
makeIndexOf(ptr, idx) == makeIndex(Len(ptr) - 1, ptr, idx)

\* an array of the engine's own, and an array of the caller's wrapped
\* with the tag Array::UserOwns; freed counts the times it was freed
OwnArray == [origin |-> "library", owner |-> "LibraryOwns", freed |-> 0]
UserArray == [origin |-> "caller", owner |-> "UserOwns", freed |-> 0]

\* the tensor a factory function returns: one handle refers to it
madeTensor(t, index, values, form, ptrArray, idxArray, valsArray) ==
  [live |-> TRUE, t |-> t, storage |-> [index |-> index, values |-> values],
   form |-> form, refs |-> 1, copied |-> FALSE,
   arrays |-> [extent |-> OwnArray, pos |-> ptrArray, idx |-> idxArray,
               vals |-> valsArray]]

\* a variant of makeCSR (raw arrays) that wraps vals as an array of the
\* engine's own
makeCSRTakesVals(dimensions, rowptr, colidx, vals) ==
  /\ ~made.live
  /\ IF Len(dimensions) # 2
       THEN /\ call' = Call("makeCSR", "requires_matrix", Len(dimensions))
            /\ UNCHANGED made
       ELSE LET t == matrixDecl(dimensions, CSR)
                index == makeIndex(Get(dimensions, 0), rowptr, colidx)
            IN /\ made' = madeTensor(t, index,
                            SubSeq(vals, 1, getSize(t, index)), "raw",
                            UserArray, UserArray,
                            [UserArray EXCEPT !.owner = "LibraryOwns"])
               /\ call' = Call("makeCSR", "none", Len(dimensions))
  /\ UNCHANGED <<tensor, storage, coordinateBuffer, handles, iters, inserted,
                 packed, transposed, constructed>>

\* makeCSR(name, dimensions, int* rowptr, int* colidx, T* vals)
makeCSR(dimensions, rowptr, colidx, vals) ==
  /\ ~made.live
  /\ IF Len(dimensions) # 2
       THEN /\ call' = Call("makeCSR", "requires_matrix", Len(dimensions))
            /\ UNCHANGED made
       ELSE LET t == matrixDecl(dimensions, CSR)
                index == makeIndex(Get(dimensions, 0), rowptr, colidx)
            IN /\ made' = madeTensor(t, index,
                            SubSeq(vals, 1, getSize(t, index)), "raw",
                            UserArray, UserArray, UserArray)
               /\ call' = Call("makeCSR", "none", Len(dimensions))
  /\ UNCHANGED <<tensor, storage, coordinateBuffer, handles, iters, inserted,
                 packed, transposed, constructed>>

\* makeCSR(name, dimensions, vector rowptr, vector colidx, vector vals)
makeCSRVectors(dimensions, rowptr, colidx, vals) ==
  /\ ~made.live
  /\ IF Len(dimensions) # 2
       THEN /\ call' = Call("makeCSR", "requires_matrix", Len(dimensions))
            /\ UNCHANGED made
       ELSE /\ made' = madeTensor(matrixDecl(dimensions, CSR),
                         makeIndexOf(rowptr, colidx), vals, "vectors",
                         OwnArray, OwnArray, OwnArray)
            /\ call' = Call("makeCSR", "none", Len(dimensions))
  /\ UNCHANGED <<tensor, storage, coordinateBuffer, handles, iters, inserted,
                 packed, transposed, constructed>>

\* a variant of makeCSC (raw arrays) that sizes the outer level by the
\* rows
makeCSCByRows(dimensions, colptr, rowidx, vals) ==
  /\ ~made.live
  /\ IF Len(dimensions) # 2
       THEN /\ call' = Call("makeCSC", "requires_matrix", Len(dimensions))
            /\ UNCHANGED made
       ELSE LET t == matrixDecl(dimensions, CSC)
                index == makeIndex(Get(dimensions, 0), colptr, rowidx)
            IN /\ made' = madeTensor(t, index,
                            SubSeq(vals, 1, Len(rowidx)), "raw",
                            UserArray, UserArray, UserArray)
               /\ call' = Call("makeCSC", "none", Len(dimensions))
  /\ UNCHANGED <<tensor, storage, coordinateBuffer, handles, iters, inserted,
                 packed, transposed, constructed>>

\* makeCSC(name, dimensions, int* colptr, int* rowidx, T* vals)
makeCSC(dimensions, colptr, rowidx, vals) ==
  /\ ~made.live
  /\ IF Len(dimensions) # 2
       THEN /\ call' = Call("makeCSC", "requires_matrix", Len(dimensions))
            /\ UNCHANGED made
       ELSE LET t == matrixDecl(dimensions, CSC)
                index == makeIndex(Get(dimensions, 1), colptr, rowidx)
            IN /\ made' = madeTensor(t, index,
                            SubSeq(vals, 1, getSize(t, index)), "raw",
                            UserArray, UserArray, UserArray)
               /\ call' = Call("makeCSC", "none", Len(dimensions))
  /\ UNCHANGED <<tensor, storage, coordinateBuffer, handles, iters, inserted,
                 packed, transposed, constructed>>

\* makeCSC(name, dimensions, vector colptr, vector rowidx, vector vals)
makeCSCVectors(dimensions, colptr, rowidx, vals) ==
  /\ ~made.live
  /\ IF Len(dimensions) # 2
       THEN /\ call' = Call("makeCSC", "requires_matrix", Len(dimensions))
            /\ UNCHANGED made
       ELSE /\ made' = madeTensor(matrixDecl(dimensions, CSC),
                         makeIndexOf(colptr, rowidx), vals, "vectors",
                         OwnArray, OwnArray, OwnArray)
            /\ call' = Call("makeCSC", "none", Len(dimensions))
  /\ UNCHANGED <<tensor, storage, coordinateBuffer, handles, iters, inserted,
                 packed, transposed, constructed>>

\* a handle of the made tensor is copied: one more handle refers to its
\* Storage
madeCopy ==
  /\ made.live
  /\ made.refs >= 1
  /\ made.refs < Cardinality(H)
  /\ made' = [made EXCEPT !.refs = @ + 1, !.copied = TRUE]
  /\ call' = Call("copy", "none", 0)
  /\ UNCHANGED <<tensor, storage, coordinateBuffer, handles, iters, inserted,
                 packed, transposed, constructed>>

\* a handle of the made tensor is destroyed; with the last one the Storage
\* is destroyed, and every array the engine owns is freed
madeDestroy ==
  /\ made.live
  /\ made.refs >= 1
  /\ made' = [made EXCEPT
       !.refs = @ - 1,
       !.arrays = IF made.refs = 1
                    THEN [a \in DOMAIN made.arrays |->
                            IF made.arrays[a].owner = "LibraryOwns"
                              THEN [made.arrays[a] EXCEPT !.freed = @ + 1]
                              ELSE made.arrays[a]]
                    ELSE @]
  /\ call' = Call("destroy", "none", 0)
  /\ UNCHANGED <<tensor, storage, coordinateBuffer, handles, iters, inserted,
                 packed, transposed, constructed>>

\* the dimensions vectors the factory functions are given: the matrices of
\* the model, and a vector that is too short and one that is too long
DimensionVectors ==
  {<<r, c>> : r \in 1 .. MaxDim, c \in 1 .. MaxDim} \cup {<<1>>, <<1, 1, 1>>}

\* the records of a matrix with at most MaxInserts nonzero cells, valued
\* by their rank in row-major order
MatrixRecords(dimensions) ==
  IF Len(dimensions) # 2 THEN {{}}
  ELSE LET cells == {c \in Coordinates(2) :
                       c[0] < dimensions[1] /\ c[1] < dimensions[2]}
       IN {{[coord |-> c,
             val |-> 1 + Cardinality({b \in Cs : Rank(b) < Rank(c)})] :
              c \in Cs} :
             Cs \in {X \in SUBSET cells : Cardinality(X) <= MaxInserts}}

\* the records with row and column exchanged
Swapped(S) ==
  {[coord |-> (0 :> r.coord[1] @@ 1 :> r.coord[0]), val |-> r.val] : r \in S}

\* the CSR arrays of a set of records of a matrix with the given
\* dimensions, and its CSC arrays
CSRArraysOf(dimensions, S) ==
  IF Len(dimensions) # 2
    THEN [rowptr |-> <<0, 0>>, colidx |-> <<>>, vals |-> <<>>]
    ELSE RefCSR(dimensions[1], S)

CSCArraysOf(dimensions, S) ==
  IF Len(dimensions) # 2
    THEN [rowptr |-> <<0, 0>>, colidx |-> <<>>, vals |-> <<>>]
    ELSE RefCSR(dimensions[2], Swapped(S))

\* The factory functions, given the CSR or CSC arrays of a matrix (or a
\* dimensions vector that is no matrix's), then copies and destructions of
\* the handles of the tensor they return.
NextMake ==
  \/ \E d \in DimensionVectors : \E S \in MatrixRecords(d) :
       LET a == CSRArraysOf(d, S) IN makeCSR(d, a.rowptr, a.colidx, a.vals)
  \/ \E d \in DimensionVectors : \E S \in MatrixRecords(d) :
       LET a == CSRArraysOf(d, S)
       IN makeCSRVectors(d, a.rowptr, a.colidx, a.vals)
  \/ \E d \in DimensionVectors : \E S \in MatrixRecords(d) :
       LET a == CSCArraysOf(d, S) IN makeCSC(d, a.rowptr, a.colidx, a.vals)
  \/ \E d \in DimensionVectors : \E S \in MatrixRecords(d) :
       LET a == CSCArraysOf(d, S)
       IN makeCSCVectors(d, a.rowptr, a.colidx, a.vals)
  \/ madeCopy
  \/ madeDestroy

\* no tensor but a scalar exists beside the made one
InitMake == Construct({t \in TensorDecls : getOrder(t) = 0})

SpecMake == InitMake /\ [][NextMake]_vars

\* the handles of the made tensor are all destroyed
AllDestroyed == made.live /\ made.refs = 0

\* C14: in every sequence of Storage construction, handle copying and
\* destruction, the caller's arrays (the raw rowptr/colidx/vals given to
\* makeCSR/makeCSC) are never freed, and every array of the engine's own
\* is freed exactly once, when the last handle is destroyed, never while a
\* handle still refers to it.
C14_FreedOnceNeverCallers ==
  made.live =>
    /\ made.form = "raw" =>
         \A a \in {"pos", "idx", "vals"} : made.arrays[a].origin = "caller"
    /\ \A a \in DOMAIN made.arrays :
         /\ made.arrays[a].origin = "caller" => made.arrays[a].freed = 0
         /\ made.arrays[a].origin = "library" =>
              made.arrays[a].freed = IF made.refs = 0 THEN 1 ELSE 0

\* C14 witness: a CSR tensor was made from raw arrays, its handle copied
\* and both handles destroyed: the extent array was freed, the caller's
\* arrays were not
C14_Witness ==
  /\ AllDestroyed /\ made.copied
  /\ made.form = "raw"
  /\ made.storage.values # <<>>
  /\ made.arrays["extent"].freed = 1
  /\ made.arrays["vals"].freed = 0

\* the made tensor is a CSC one (columns outermost)
MadeCSC == made.t.modeOrdering[0] = 1

\* C15: both forms of makeCSR and makeCSC return a tensor whose Index has
\* exactly two levels: a Dense outer level whose extent is the number of
\* rows dimensions[0] for CSR and the number of columns dimensions[1] for
\* CSC, and a Compressed inner level whose position array has length outer
\* extent + 1 and whose coordinate array has the length of the last
\* position entry, which is also Index.getSize(); a dimensions vector whose
\* length is not 2 is rejected.
C15_MadeIndexIsCSR ==
  /\ call.op \in {"makeCSR", "makeCSC"} =>
       /\ call.err = "requires_matrix" <=> call.pending # 2
       /\ call.err = "requires_matrix" => ~made.live
       /\ call.err = "none" => made.live /\ made.refs = 1
  /\ made.live =>
       LET index == made.storage.index
           outer == getIndexArray(getModeIndex(index, 0), 0)
           pos == getIndexArray(getModeIndex(index, 1), 0)
           idx == getIndexArray(getModeIndex(index, 1), 1)
           extent == Get(outer, 0)
       IN /\ Len(index) = 2
          /\ made.t.modeTypes[0] = Dense /\ made.t.modeTypes[1] = Sparse
          /\ Len(getModeIndex(index, 0)) = 1 /\ Len(outer) = 1
          /\ extent = IF MadeCSC THEN made.t.dims[1] ELSE made.t.dims[0]
          /\ Len(getModeIndex(index, 1)) = 2
          /\ Len(pos) = extent + 1
          /\ Len(idx) = Get(pos, extent)
          /\ getSize(made.t, index) = Get(pos, extent)
          /\ Len(made.storage.values) = getSize(made.t, index)
          /\ ValidIndex(made.t, index)

\* C15 witness: makeCSC has returned a matrix with more rows than columns
\* and two stored entries, made from raw arrays
C15_Witness ==
  /\ made.live /\ MadeCSC /\ made.form = "raw"
  /\ call.op = "makeCSC"
  /\ made.t.dims[0] > made.t.dims[1]
  /\ getSize(made.t, made.storage.index) = 2

\* a factory function was called with a dimensions vector of length 3 and
\* has rejected it
MadeRejected == call.err = "requires_matrix" /\ call.pending > 2

\* ------------------------------------------------ several iterators
\* A packed tensor, its handle and a copy of the handle, and two
\* iterators: the first made by begin() through the handle, the second
\* through either handle while the first exists, both incremented in any
\* order, up to end() and beyond it.
NextIter ==
  \/ \E c \in Coordinates(getOrder(tensor)) :
       /\ storage = NoStorage /\ InBounds(tensor, c)
       /\ \A j \in 1 .. Len(Pending(1)) : Rank(Pending(1)[j].coord) < Rank(c)
       /\ insert(1, c, ValueOf(1), tensor.ctype)
  \/ storage = NoStorage /\ pack(1)
  \/ /\ storage # NoStorage
     /\ \A i \in I : ~iters[i].live
     /\ copy(1, 2)
  \/ \E s \in StrayReads : begin(1, 1, s)
  \/ \E h \in H, s \in StrayReads : iters[1].live /\ begin(2, h, s)
  \/ \E i \in I, s \in StrayReads : increment(i, s)
  \/ \E i \in I, s \in StrayReads : incrementPastEnd(i, s)

SpecIter == InitSmall /\ [][NextIter]_vars

RECURSIVE AloneAfter(_, _, _)
\* the members of an iterator made by begin() through handle h of a tensor
\* with Storage st and incremented n times, with no other iterator around
AloneAfter(st, h, n) ==
  LET e == [t |-> tensor, storage |-> st, stray |-> 0]
  IN IF n = 0 THEN const_iterator(e, h, FALSE).it
     ELSE advanceIndex(e, AloneAfter(st, h, n - 1)).it

\* the calls that make or advance an iterator
IterOps == {"begin", "increment", "incrementPastEnd"}

\* C16: with two traversal instances over the same packed tensor, advanced
\* in any interleaving, every step that makes or advances one instance
\* leaves the Index arrays, the value array and the other instance's
\* members (coord, ptrs, curVal, count, advance) as they were, and every
\* instance holds after n steps what an instance run alone holds after n
\* steps, having produced the same elements.
C16_TraversalsIndependent ==
  [][call'.op \in IterOps /\ iters' # iters =>
       /\ storage' = storage
       /\ \A i \in I : iters'[i] # iters[i] =>
            \A j \in I \ {i} : iters'[j] = iters[j]
       /\ \A i \in I : iters'[i] # iters[i] =>
            /\ iters'[i].it
                 = AloneAfter(storage, iters'[i].it.tensor, iters'[i].steps)
            /\ iters'[i].steps <= getSize(tensor, storage.index) =>
                 iters'[i].seen
                   = SubSeq(TraversalOf(tensor, storage), 1,
                            Len(iters'[i].seen))]_vars

\* C16 witness: two iterators of the same handle, both in the middle of a
\* tensor of three elements at different positions, the one that started
\* later being ahead
C16_Witness ==
  /\ iters[1].live /\ iters[2].live
  /\ iters[1].it.tensor = iters[2].it.tensor
  /\ call.op = "increment"
  /\ getSize(tensor, storage.index) >= 3
  /\ iters[1].steps = 1 /\ iters[2].steps = 2
  /\ Len(iters[1].seen) = 2 /\ Len(iters[2].seen) = 3
  /\ iters[1].it.curVal # iters[2].it.curVal

\* C17: once an advance step of an instance has reported that the
\* outermost level is consumed (advanceIndex(0) returned false), every
\* later advance step of that instance reports the same and produces no
\* element: the walk does not start again at the first leaf.
C17_ExhaustionIsTerminal ==
  [][\A i \in I :
       (/\ iters[i].live /\ ~iters[i].ret
        /\ iters'[i].live /\ iters'[i].steps = iters[i].steps + 1) =>
         /\ ~iters'[i].ret
         /\ iters'[i].leaves = iters[i].leaves]_vars

\* an instance that was exhausted has gone on and stands at the first leaf
\* again
WalkRestarted ==
  \E i \in I :
    /\ iters[i].live /\ iters[i].ret
    /\ call.op = "incrementPastEnd"
    /\ iters[i].steps = getSize(tensor, storage.index) + 1
    /\ Len(iters[i].leaves) = getSize(tensor, storage.index) + 1
    /\ iters[i].leaves[Len(iters[i].leaves)] = iters[i].leaves[1]

\* the number of elements an instance has produced: those its loop has
\* dereferenced or stepped over, which is the number of its advance steps
\* once it has reached end()
Produced(i) == iters[i].steps

\* C18: two traversal instances over the same tensor Storage compare equal
\* if and only if they have produced the same number of elements, also
\* when they were made through two different handles of the tensor.
C18_EqualIffSameProduced ==
  \A i \in I, j \in I :
    (iters[i].live /\ iters[j].live) =>
      (IterEq(iters[i].it, iters[j].it) <=> Produced(i) = Produced(j))

\* two instances made through the handle and its copy stand at the same
\* element and do not compare equal
DifferentHandlesSamePosition ==
  /\ iters[1].live /\ iters[2].live
  /\ iters[1].it.tensor # iters[2].it.tensor
  /\ iters[1].steps = iters[2].steps
  /\ iters[1].it.curVal = iters[2].it.curVal
  /\ ~IterEq(iters[1].it, iters[2].it)

\* two instances of the same handle compare equal if and only if they
\* have taken the same number of advance steps
SameHandleEqualIffSameSteps ==
  \A i \in I, j \in I :
    (iters[i].live /\ iters[j].live
       /\ iters[i].it.tensor = iters[j].it.tensor) =>
      (IterEq(iters[i].it, iters[j].it) <=> iters[i].steps = iters[j].steps)

\* C19: on a single handle, after m accepted inserts since the last pack
\* the used-bytes count is m times the record size and at most the buffer
\* size, and record j holds the coordinates and the value of the j-th
\* insert as given: an accepted insert appends its record after the
\* pending ones and leaves them unchanged, and a coordinate that is pending
\* already or is out of bounds is appended like any other.
C19_InsertAppendsInCallOrder ==
  [][LET cs == coordinateSize(tensor)
         m == handles[1].coordinateBufferUsed \div cs
     IN /\ handles'[1].coordinateBufferUsed
             = Cardinality(inserted') * cs
        /\ handles'[1].coordinateBufferUsed <= coordinateBuffer'.size
        /\ {Pending(1)'[j] : j \in 1 .. Len(Pending(1)')} = inserted'
        /\ \A j \in 1 .. Len(Pending(1)') : Pending(1)'[j].val = j
        /\ (call'.op = "insert" /\ call'.err = "none") =>
             /\ handles'[1].coordinateBufferUsed = (m + 1) * cs
             /\ Len(Pending(1)') = m + 1
             /\ \A j \in 1 .. m : Pending(1)'[j] = Pending(1)[j]
             /\ Pending(1)'[m + 1].val = ValueOf(1)
             /\ inserted' = inserted \cup {Pending(1)'[m + 1]}
    ]_vars

\* C19 witness: two inserts of the same out-of-bounds coordinate were
\* accepted after a pack, and both records are pending in call order
C19_Witness ==
  /\ call.op = "insert" /\ call.err = "none"
  /\ storage # NoStorage
  /\ getOrder(tensor) = 1
  /\ Len(Pending(1)) = 2
  /\ Pending(1)[1].coord = Pending(1)[2].coord
  /\ ~InBounds(tensor, Pending(1)[1].coord)
  /\ Pending(1)[1].val = 1 /\ Pending(1)[2].val = 2
  /\ handles[1].coordinateBufferUsed = 2 * coordinateSize(tensor)

\* ------------------------------------------- traversal of any Index
\* the position arrays of a Compressed level below the given number of
\* parent positions: length parents + 1, from 0, never decreasing, with at
\* most MaxInserts entries in all
PosArrays(parents) ==
  {pos \in [1 .. parents + 1 -> 0 .. MaxInserts] :
     /\ pos[1] = 0
     /\ \A k \in 1 .. parents : pos[k] <= pos[k + 1]}

RECURSIVE IndexesFrom(_, _, _)
\* the level indices of levels lvl and deeper that satisfy the level
\* invariants below the given number of parent positions: a Dense level
\* holds the extent of its dimension, a Compressed level any position
\* array and any coordinates of its dimension
IndexesFrom(t, lvl, parents) ==
  IF lvl = getOrder(t) THEN {<<>>}
  ELSE
    LET dim == t.dims[t.modeOrdering[lvl]]
    IN IF t.modeTypes[lvl] = Dense
         THEN {<< << <<dim>> >> >> \o rest :
                 rest \in IndexesFrom(t, lvl + 1, parents * dim)}
         ELSE UNION {
                {<< <<pos, idx>> >> \o rest :
                   idx \in [1 .. pos[parents + 1] -> 0 .. (dim - 1)],
                   rest \in IndexesFrom(t, lvl + 1, pos[parents + 1])} :
                pos \in PosArrays(parents)}

\* the Storages of a tensor with such an Index; value slot k holds k + 1
Storages(t) ==
  {[index |-> index,
    values |-> [k \in 1 .. getSize(t, index) |-> k]] :
     index \in IndexesFrom(t, 0, 1)}

\* tensor.getStorage().setIndex(index), .setValues(values): the tensor is
\* given an Index and a value array made elsewhere
setStorage(st) ==
  /\ handles[1].live
  /\ storage = NoStorage
  /\ handles[1].coordinateBufferUsed = 0
  /\ storage' = st
  /\ call' = Call("setStorage", "none", 0)
  /\ UNCHANGED <<tensor, coordinateBuffer, handles, iters, inserted, packed,
                 transposed, made, constructed>>

\* A tensor of any format that is given any Index satisfying the level
\* invariants, and one traversal of it.
NextWalk ==
  \/ storage = NoStorage /\ \E st \in Storages(tensor) : setStorage(st)
  \/ \E s \in StrayReads : begin(1, 1, s)
  \/ \E s \in StrayReads : increment(1, s)

SpecWalk == Init /\ [][NextWalk]_vars

\* the value slot the leaf case reads at a leaf: ptrs[order - 1], slot 0
\* for a scalar
SlotRead(leaf) ==
  IF getOrder(tensor) = 0 THEN 0 ELSE leaf.ptrs[getOrder(tensor) - 1]

\* C20: over any Index that satisfies the level invariants, with any mix
\* of Dense and Compressed levels, the value slot read for the k-th leaf
\* produced (k = 0, 1, ...) is slot k: the traversal reads the slots 0, 1,
\* 2, ... one after the other, each once and none at or beyond
\* Index.getSize(), and has read all of them when it reaches end().
C20_LeafReadsSlotK ==
  \A i \in I : iters[i].live =>
    /\ Len(iters[i].leaves) <= getSize(tensor, storage.index)
    /\ \A k \in 1 .. Len(iters[i].leaves) :
         /\ SlotRead(iters[i].leaves[k]) = k - 1
         /\ iters[i].leaves[k].curVal.second = Get(storage.values, k - 1)
    /\ AtEnd(i) => Len(iters[i].leaves) = getSize(tensor, storage.index)

\* C20 witness: a traversal has reached end() over an Index with a
\* Compressed level below a Compressed level whose first parent has no
\* child and whose coordinates repeat, after reading two slots
C20_Witness ==
  /\ AtEnd(1)
  /\ getOrder(tensor) = 2
  /\ tensor.modeTypes[0] = Sparse /\ tensor.modeTypes[1] = Sparse
  /\ getIndexArray(getModeIndex(storage.index, 1), 0) = <<0, 0, 2>>
  /\ getIndexArray(getModeIndex(storage.index, 1), 1) = <<1, 1>>
  /\ Len(iters[1].leaves) = 2
  /\ iters[1].leaves[2].curVal.second = 2

\* ------------------------------------------ constructors with a ModeType
\* ModeType::compressed, the default of the modeType parameter
compressed == Sparse

\* TensorBase(ctype, dimensions, modeType), TensorBase(name, ctype,
\* dimensions, modeType): a tensor of the given dimensions whose format
\* has the given modeType in every mode, modes in their natural order
TensorBase(ctype, dimensions, modeType) ==
  [order |-> Len(dimensions),
   modeTypes |-> [l \in Levels(Len(dimensions)) |-> modeType],
   modeOrdering |-> [l \in Levels(Len(dimensions)) |-> l],
   dims |-> [l \in Levels(Len(dimensions)) |-> Get(dimensions, l)],
   ctype |-> ctype]

\* what a constructor has made, and from what arguments: given tells
\* whether the caller wrote the modeType argument
constructedTensor(t, form, dimensions, modeType, given) ==
  [live |-> TRUE, t |-> t, form |-> form, dimensions |-> dimensions,
   modeType |-> modeType, given |-> given]

\* Tensor<CType>(dimensions, modeType): the base is constructed as
\* TensorBase(type<CType>(), dimensions), without the modeType argument,
\* so with the default of TensorBase's own parameter
TensorOfDimensions(ctype, dimensions, modeType, given) ==
  /\ given \/ modeType = compressed
  /\ constructed' = constructedTensor(
                      TensorBase(ctype, dimensions, compressed),
                      "dimensions", dimensions, modeType, given)
  /\ call' = Call("Tensor", "none", Len(dimensions))
  /\ UNCHANGED <<tensor, storage, coordinateBuffer, handles, iters, inserted,
                 packed, transposed, made>>

\* Tensor<CType>(name, dimensions, modeType): the base is constructed as
\* TensorBase(name, type<CType>(), dimensions, modeType)
TensorOfName(ctype, dimensions, modeType, given) ==
  /\ given \/ modeType = compressed
  /\ constructed' = constructedTensor(
                      TensorBase(ctype, dimensions, modeType),
                      "name", dimensions, modeType, given)
  /\ call' = Call("Tensor", "none", Len(dimensions))
  /\ UNCHANGED <<tensor, storage, coordinateBuffer, handles, iters, inserted,
                 packed, transposed, made>>

\* the dimensions vectors the constructors are given: up to three modes
DimensionsUpTo3 ==
  UNION {[1 .. n -> 1 .. MaxDim] : n \in 0 .. 3}

\* Tensors made by the two constructors, one after the other, with the
\* modeType argument written or left out.
NextConstruct ==
  \/ \E k \in ComponentTypes, d \in DimensionsUpTo3,
        m \in {Dense, Sparse}, g \in BOOLEAN :
       TensorOfDimensions(k, d, m, g)
  \/ \E k \in ComponentTypes, d \in DimensionsUpTo3,
        m \in {Dense, Sparse}, g \in BOOLEAN :
       TensorOfName(k, d, m, g)

SpecConstruct == InitMake /\ [][NextConstruct]_vars

\* C21: a tensor constructed by Tensor<CType>(dimensions, modeType) has the
\* given modeType in every mode of its format (compressed only when the
\* argument is left out), exactly as the tensor constructed by
\* Tensor<CType>(name, dimensions, modeType) has.
C21_ModeTypeInEveryMode ==
  constructed.live =>
    /\ \A l \in Levels(getOrder(constructed.t)) :
         constructed.t.modeTypes[l] = constructed.modeType
    /\ constructed.t
         = TensorBase(constructed.t.ctype, constructed.dimensions,
                      constructed.modeType)
    /\ ~constructed.given => constructed.modeType = compressed

\* a matrix was made by Tensor<CType>(dimensions, dense) and its modes are
\* compressed
DenseAskedCompressedMade ==
  /\ constructed.live /\ constructed.form = "dimensions"
  /\ constructed.given /\ constructed.modeType = Dense
  /\ getOrder(constructed.t) = 2
  /\ \A l \in Levels(2) : constructed.t.modeTypes[l] = compressed

\* the constructor that takes a name gives every mode the given modeType,
\* compressed when the argument is left out
NamedHasModeTypeInEveryMode ==
  (constructed.live /\ constructed.form = "name") =>
    \A l \in Levels(getOrder(constructed.t)) :
      constructed.t.modeTypes[l] = constructed.modeType

\* ------------------------------------------------- growth of the buffer
\* Bursts of inserts of any length the model allows, and packs, through
\* one handle of a tensor with few cells; the coordinate plays no part in
\* the growth and is the origin.
NextGrow ==
  \/ insert(1, Zeros(getOrder(tensor)), ValueOf(1), tensor.ctype)
  \/ pack(1)

SpecGrow == InitSmall /\ [][NextGrow]_vars

\* the step is an insert that was accepted and found less free space than
\* one record
GrowingInsert ==
  /\ call'.op = "insert" /\ call'.err = "none"
  /\ coordinateBuffer.size - handles[1].coordinateBufferUsed
       < coordinateSize(tensor)

\* C22 (as claimed): when an insert finds less free space than one record
\* the buffer grows geometrically, here by doubling: its size after the
\* insert is at least twice its size before, and larger.
C22_GrowsGeometrically ==
  [][GrowingInsert =>
       /\ coordinateBuffer'.size > coordinateBuffer.size
       /\ coordinateBuffer'.size >= 2 * coordinateBuffer.size]_vars

\* C22 (amended): when an insert finds less free space than one record the
\* buffer grows by exactly one record, and an insert that finds room does
\* not change its size; a burst of m inserts into the buffer of a tensor
\* that was never packed takes m growth steps and leaves a buffer of m
\* records with no free space.
C22_GrowsByOneRecord ==
  [][call'.op = "insert" =>
       /\ IF GrowingInsert
            THEN coordinateBuffer'.size
                   = coordinateBuffer.size + coordinateSize(tensor)
            ELSE coordinateBuffer'.size = coordinateBuffer.size
       /\ coordinateBuffer'.size
            = Len(coordinateBuffer'.data) * coordinateSize(tensor)
       /\ handles'[1].coordinateBufferUsed <= coordinateBuffer'.size
       /\ storage' = NoStorage =>
            coordinateBuffer'.size = handles'[1].coordinateBufferUsed
    ]_vars

\* C22 witness: the third insert of a burst into a fresh tensor has grown
\* the buffer from two records to three
C22_Witness ==
  /\ call.op = "insert" /\ call.err = "none"
  /\ storage = NoStorage
  /\ handles[1].coordinateBufferUsed = 3 * coordinateSize(tensor)
  /\ coordinateBuffer.size = 3 * coordinateSize(tensor)

\* an insert after a pack has found room in the buffer and has not grown it
InsertReusesBuffer ==
  /\ call.op = "insert" /\ call.err = "none"
  /\ storage # NoStorage
  /\ handles[1].coordinateBufferUsed = coordinateSize(tensor)
  /\ coordinateBuffer.size > coordinateSize(tensor)

\* ------------------------------------------- accesses of the cursors
\* C23: every access of the per-level cursors during a traversal is in
\* range: in every call advanceIndex(lvl), for every format and every
\* level, lvl = 0 included, each access to ptrs[i] or coord[i] has
\* 0 <= i < order (ptrs[lvl - 1] is read only when lvl >= 1), and each
\* access to a position or coordinate array uses an index below the
\* length of the array.
C23_CursorAccessesInRange ==
  \A i \in I : iters[i].live =>
    /\ iters[i].it.oob = {}
    /\ \A s \in StrayReads : end(iters[i].it.tensor, s).oob = {}

\* a traversal of a tensor whose outermost level is Dense has read
\* ptrs[lvl - 1] in the call advanceIndex(0)
ParentReadAtLevel0 ==
  /\ iters[1].live
  /\ tensor.modeTypes[0] = Dense
  /\ [array |-> "ptrs", index |-> -1] \in iters[1].it.oob

\* the read of ptrs[lvl - 1] at level 0 of a tensor whose outermost level
\* is Dense is the only access out of range
OnlyParentReadOutOfRange ==
  \A i \in I : iters[i].live =>
    /\ iters[i].it.oob \subseteq {[array |-> "ptrs", index |-> -1]}
    /\ iters[i].it.oob # {} =>
         getOrder(tensor) > 0 /\ tensor.modeTypes[0] = Dense

====
